---- MODULE Spec2Model ----
(***************************************************************************)
(* A state-machine model of the Internshala chat bot: the cookie store     *)
(* (StorageManager), the login flow (InternshalaBot.login and              *)
(* AuthManager.performLogin) and the conversation extractor (ChatManager). *)
(* Times are milliseconds relative to the instant the model starts.        *)
(***************************************************************************)
EXTENDS Integers, Sequences, FiniteSets, TLC

VARIABLES
    \* ---- StorageManager: data/cookies.json and the wall clock
    cookieFile,       \* the cookie document on disk
    now,              \* Date.now()
    \* ---- InternshalaBot.login / AuthManager.performLogin
    credsSet,         \* USER_EMAIL and USER_PASSWORD are both set
    loginPc,          \* position of the login() call
    loaded,           \* what loadCookies() returned to login()
    contextCookies,   \* cookies held by the browser context
    validation,       \* outcome of validating a reused session
    attempt,          \* performLogin's local `attempt`
    lastAttempt,      \* what the latest login attempt did
    waited,           \* sum of the backoff delays of this call
    loginResult,      \* how the login() call ended
    loginError,       \* the error login() threw
    holdSeen,         \* the page showed the account-on-hold markup in this call
    attemptAfterHold, \* a login attempt was started after the hold markup was shown
    logins,           \* login() calls started so far
    \* ---- ChatManager.fetchChatHistory / scrollToLoadHistory / extractMessages
    fetchPc,          \* position of the fetchChatHistory() call
    pageCount,        \* what getMessageCount(page) returns at this instant
    scrollAttempt,    \* scrollToLoadHistory's local `scrollAttempt`
    previousMessageCount,
    reads,            \* calls of getMessageCount in this scroll loop
    unchangedReads,   \* reads that returned the same count as the read before
    growthRun,        \* leading scrolls that each increased the count
    phase,            \* "growing", then "flat" while the count stays, else "other"
    selIdx,           \* extractMessages: index of the selector tried next
    messages,         \* extractMessages' local `messages`
    winner,           \* first selector whose query returned an element (0: none)
    queryThrew,       \* a selector query of this pass threw
    result,           \* the sequence fetchChatHistory returned
    fetchError,       \* the error fetchChatHistory threw
    \* ---- StorageManager: data/chat_history.json
    historyFile,      \* the history document on disk
    lastCall,         \* the latest direct call of the history API and its effect
    \* ---- InternshalaBot chat operations and ChatManager.startLiveListener
    pageOpen,         \* the page has not been closed by cleanup()
    currentConversation,
    isListening,      \* the flag isListeningCallback reads
    listenPc,         \* position of the startLiveListener() call
    listenConv,       \* its conversationId argument ("none": null)
    observer,         \* window.messageObserver is installed and connected
    pageElems,        \* elements added under the observer: flag, cycles that processed it
    cancelledAtExit,  \* the flag was false when startLiveListener exited
    liveAppended,     \* messages the live watch added to the history
    storeRead,        \* how the latest read of a store file ended
    pageEls,          \* elements the winning message selector matches
    mcpCalls,         \* handleToolCall() calls made so far
    toolResult,       \* what the latest handleToolCall() resolved to
    listenPromise,    \* the promise of the startListening() a listen_live made
    listenReport,     \* success field returned by that listen_live call
    unhandled,        \* a promise was rejected with no handler attached
    \* ---- per-element classification
    elem,             \* the element handed to the extractor
    elemIdx,          \* its index in the pass
    classified,       \* the message the extractor made of it
    \* ---- two overlapping writers of data/chat_history.json
    rmwBase,          \* the document before either started
    rmwOps,           \* what each of them is: appendMessage or saveChatHistory
    rmwPc,            \* where each stands: before its read, before its write, done
    rmwSnap,          \* the document each one read
    \* ---- several startLiveListener calls and duration timers on one bot
    loops,            \* position of each startLiveListener() call
    sessionNo,        \* listening sessions started so far (flag set to true)
    timers,           \* armed duration timers, each by the session of its call
    lastStop,         \* what cleared the flag last, and which session it ended
    watchCalls,       \* startListening / stopListening / cleanup calls so far
    pollPc,           \* where pollForResult() stands
    pollElapsed,      \* Date.now() - startTime of the running pollForResult()
    polls,            \* getTaskResult requests it has made
    pollResult,       \* what it returned
    lastSend,         \* how the latest sendMessage() call ended
    lastOp,           \* the bot operation that ran last
    calls,            \* bot operations started so far
    \* ---- one attempt of performLogin on a given page
    attemptPage       \* what the attempt meets on the page (NoPage: not given)

storeVars == <<cookieFile, now>>
loginVars == <<credsSet, loginPc, loaded, contextCookies, validation, attempt,
               lastAttempt, waited, loginResult, loginError, holdSeen,
               attemptAfterHold, logins>>
fetchVars == <<fetchPc, pageCount, scrollAttempt, previousMessageCount,
               reads, unchangedReads, growthRun, phase, selIdx, messages, winner,
               queryThrew, result, fetchError>>
histVars == <<historyFile, lastCall>>
chatVars == <<pageOpen, currentConversation, isListening, listenPc, listenConv,
              observer, pageElems, cancelledAtExit, liveAppended, lastSend,
              lastOp, calls>>
pollVars == <<pollPc, pollElapsed, polls, pollResult>>
mcpVars == <<mcpCalls, toolResult, listenPromise, listenReport, unhandled>>
classVars == <<elem, elemIdx, classified>>
rmwVars == <<rmwBase, rmwOps, rmwPc, rmwSnap>>
watchVars == <<loops, sessionNo, timers, lastStop, watchCalls>>
lateVars == <<classVars, rmwVars, watchVars>>
restVars == <<storeRead, pollVars, pageEls, mcpVars, lateVars>>
moreVars == <<attemptPage, restVars>>
vars == <<storeVars, loginVars, fetchVars, histVars, chatVars, moreVars>>

\* what the login actions, and what the fetch actions, leave alone
notLogin == <<fetchVars, histVars, chatVars, moreVars>>
notFetch == <<storeVars, loginVars, histVars, chatVars, moreVars>>
notHist == <<storeVars, loginVars, fetchVars, chatVars, moreVars>>
notChat == <<cookieFile, loginVars, fetchVars, lastCall, moreVars>>

(***************************************************************************)
(* Bounds of the model                                                     *)
(***************************************************************************)
MaxLogins == 2        \* login() calls in one behaviour
MaxClockSteps == 1    \* times the clock may advance between calls
MaxCount == 4         \* largest message count a page shows
MaxElems == 3         \* elements one selector query returns at most
NumSelectors == 3     \* candidates of messageSelectors that are modelled
MaxStored == 2        \* entries a conversation holds before the calls stop
MaxCalls == 3         \* bot operations in one behaviour
MaxPageElems == 1     \* elements added to the page under one observer
MaxChatTicks == 1     \* times the clock advances between chat operations

(***************************************************************************)
(* StorageManager: the cookie document                                     *)
(***************************************************************************)
DayMs == 86400000                 \* 24 * 60 * 60 * 1000
maxAge == 7 * DayMs               \* 7 days

Tokens == {"s1", "s2", "s3"}      \* session tokens the server may issue

NoFile == [kind |-> "absent", cookies |-> <<>>, tsKind |-> "none", timestamp |-> 0]
CorruptFile == [kind |-> "corrupt", cookies |-> <<>>, tsKind |-> "none", timestamp |-> 0]
Doc(c, t) == [kind |-> "doc", cookies |-> c, tsKind |-> "date", timestamp |-> t]
\* a JSON document whose timestamp is missing or does not parse as a date
DocNoDate(c) == [kind |-> "doc", cookies |-> c, tsKind |-> "invalid", timestamp |-> 0]

Null == [isNull |-> TRUE, cookies |-> <<>>]
Some(c) == [isNull |-> FALSE, cookies |-> c]

\* loadCookies with maxAge taken in seconds instead of milliseconds
loadCookiesAgeInSeconds(file, t) ==
    IF file.kind # "doc" THEN Null
    ELSE IF file.tsKind = "date" /\ t - file.timestamp > 7 * 24 * 60 * 60 THEN Null
    ELSE Some(file.cookies)

\* readFile / JSON.parse throw for a missing or corrupt file (caught: null);
\* an unparseable timestamp gives NaN, and NaN > maxAge is false.
loadCookies(file, t) ==
    IF file.kind # "doc" THEN Null
    ELSE IF file.tsKind = "date" /\ t - file.timestamp > maxAge THEN Null
    ELSE Some(file.cookies)

saveCookies(cookies, t) == Doc(cookies, t)

(***************************************************************************)
(* AuthManager                                                             *)
(***************************************************************************)
maxRetries == 3
retryDelay == 2000

Pow2(n) == IF n <= 0 THEN 1 ELSE IF n = 1 THEN 2 ELSE IF n = 2 THEN 4 ELSE 8

MsgNavigation == "net::ERR navigation failed"
MsgFormTimeout == "Timeout 10000ms exceeded waiting for email input"
MsgNoCreds == "USER_EMAIL and USER_PASSWORD must be set in .env file"
MsgNoSubmit == "Could not find submit button"
MsgErrorDetected == "Login error detected"
MsgLoginTimeout == "Login timeout - page did not redirect after form submission"
MsgLoginFailedText == "Login failed: <error text>"
MsgNotRedirected == "Login may have failed - not redirected to dashboard"

\* How handleCaptcha's work goes: no captcha element; an element of neither
\* known type; a known type that the solver answers with no solution; one it
\* solves; a page interaction or solver call that throws
CaptchaOutcomes == {"none", "unknown", "noSolution", "solved", "throws"}

MsgCaptcha == "captcha handling failed"

\* handleCaptcha letting the error of a page interaction escape
handleCaptchaRethrows(c) == IF c = "throws" THEN "thrown" ELSE "returned"

\* lines 109-198: handleCaptcha returns after `No captcha detected` (133),
\* after the unknown-type warning (142), after handleRecaptcha or
\* handleImageCaptcha, which catch their own errors (174, 195), and after its
\* own catch (145-148): it never throws
handleCaptcha(c) ==
    CASE c = "none" -> "returned"
      [] c = "unknown" -> "returned"
      [] c = "noSolution" -> "returned"
      [] c = "solved" -> "returned"
      [] c = "throws" -> "returned"

\* What one pass through the body of performLogin's loop meets on the page.
AllAttemptPages ==
    [ gotoOk   : BOOLEAN,      \* page.goto(login page) resolved
      already  : BOOLEAN,      \* isAlreadyLoggedIn(page)
      formWait : BOOLEAN,      \* the email input appeared within 10 s
      emailEl  : BOOLEAN,      \* one of the email candidates matches
      passEl   : BOOLEAN,      \* one of the password candidates matches
      submitEl : BOOLEAN,      \* one of the submit candidates matches
      race     : {"urlDashboard", "urlProfile", "markup", "errorEl", "timeout"},
      url      : {"dashboard", "student", "other"},   \* page.url() after the race
      errEl    : BOOLEAN,      \* an error-message element is present afterwards
      hold     : BOOLEAN,      \* the page shows the account-on-hold markup
      captcha  : CaptchaOutcomes ]

\* Fields the attempt never reads are fixed, so that each page is listed once.
Canonical(p) ==
    /\ (~p.gotoOk => p.already = FALSE)
    /\ ((~p.gotoOk \/ p.already) => p.formWait = FALSE)
    /\ (~p.formWait => /\ p.emailEl = FALSE /\ p.passEl = FALSE
                       /\ p.submitEl = FALSE /\ p.captcha = "none")
    /\ (~p.submitEl => /\ p.race = "timeout" /\ p.hold = FALSE)
    /\ (p.race \in {"errorEl", "timeout"} => /\ p.url = "other" /\ p.errEl = FALSE)
    /\ (p.race = "urlDashboard" => p.url = "dashboard")
    /\ (p.race = "urlProfile" => p.url = "student")
    /\ (p.url # "other" => p.errEl = FALSE)

AttemptPages == {p \in AllAttemptPages : Canonical(p)}

NoPage == [gotoOk |-> FALSE, already |-> FALSE, formWait |-> FALSE,
           emailEl |-> FALSE, passEl |-> FALSE, submitEl |-> FALSE,
           race |-> "none", url |-> "other", errEl |-> FALSE, hold |-> FALSE,
           captcha |-> "none"]

\* waitForLoginResult without the verification that follows the race
waitForLoginResultNoUrlCheck(p) ==
    IF p.race = "errorEl" THEN MsgErrorDetected
    ELSE IF p.race = "timeout" THEN MsgLoginTimeout
    ELSE ""

\* waitForLoginResult: "" when it returns, else the message of the error thrown
waitForLoginResult(p) ==
    IF p.race = "errorEl" THEN MsgErrorDetected
    ELSE IF p.race = "timeout" THEN MsgLoginTimeout
    ELSE IF p.url = "other"
         THEN (IF p.errEl THEN MsgLoginFailedText ELSE MsgNotRedirected)
         ELSE ""

Trace(nav, te, tp, sub, ok, msg) ==
    [navigated |-> nav, typedEmail |-> te, typedPass |-> tp, submitted |-> sub,
     ok |-> ok, msg |-> msg]

NoAttempt == Trace(FALSE, FALSE, FALSE, FALSE, FALSE, "")

\* The body of the try block of performLogin, one attempt.
loginAttempt(p, creds) ==
    IF ~p.gotoOk THEN Trace(TRUE, FALSE, FALSE, FALSE, FALSE, MsgNavigation)
    ELSE IF p.already THEN Trace(TRUE, FALSE, FALSE, FALSE, TRUE, "")
    ELSE IF ~p.formWait THEN Trace(TRUE, FALSE, FALSE, FALSE, FALSE, MsgFormTimeout)
    ELSE IF ~creds THEN Trace(TRUE, FALSE, FALSE, FALSE, FALSE, MsgNoCreds)
    ELSE IF handleCaptcha(p.captcha) = "thrown"
         THEN Trace(TRUE, p.emailEl, p.passEl, FALSE, FALSE, MsgCaptcha)
    ELSE IF ~p.submitEl
         THEN Trace(TRUE, p.emailEl, p.passEl, FALSE, FALSE, MsgNoSubmit)
    ELSE LET m == waitForLoginResult(p)
         IN  Trace(TRUE, p.emailEl, p.passEl, TRUE, m = "", m)

NoError == [kind |-> "none", cause |-> ""]
LoginFailed(cause) == [kind |-> "LoginFailed", cause |-> cause]
Propagated(cause) == [kind |-> "Propagated", cause |-> cause]

\* the catch block with the exhaustion test written as attempt > maxRetries
catchBlockOffByOne(att, msg) ==
    IF att > maxRetries THEN [next |-> "throw", error |-> LoginFailed(msg)]
    ELSE IF att < maxRetries THEN [next |-> "retry", error |-> NoError]
    ELSE [next |-> "return", error |-> NoError]

\* The catch block and the loop test that follows it: rethrow at the last
\* attempt, otherwise back off and go round again while attempt < maxRetries.
catchBlock(att, msg) ==
    IF att = maxRetries THEN [next |-> "throw", error |-> LoginFailed(msg)]
    ELSE IF att < maxRetries THEN [next |-> "retry", error |-> NoError]
    ELSE [next |-> "return", error |-> NoError]

\* the backoff without the doubling
backoffDelaysConstant(att) == {retryDelay, retryDelay + 1000}

\* stealth.randomDelay(delay, delay + 1000): the two ends of the range
backoffDelays(att) ==
    LET delay == retryDelay * Pow2(att - 1) IN {delay, delay + 1000}

(***************************************************************************)
(* InternshalaBot.login                                                    *)
(***************************************************************************)
\* What the dashboard page shows after the stored cookies were injected.
ValidationPages ==
    [ gotoOk : BOOLEAN, probeThrows : BOOLEAN, holdMarkup : BOOLEAN,
      dashboardEl : BOOLEAN ]

isLoggedIn(p) ==
    IF p.probeThrows THEN FALSE
    ELSE IF p.holdMarkup THEN FALSE
    ELSE p.dashboardEl

\* login() going on to the credential flow although the session was confirmed
afterValidationNoReturn(loggedIn) == "perform"

\* lines 94-97: return when the reused session is confirmed
afterValidation(loggedIn) == IF loggedIn THEN "return" ELSE "perform"

ClockStep == 8 * DayMs

LoginInit ==
    /\ credsSet \in BOOLEAN
    /\ loginPc = "idle"
    /\ loaded = Null
    /\ contextCookies = <<>>
    /\ validation = "none"
    /\ attempt = 0
    /\ lastAttempt = NoAttempt
    /\ waited = 0
    /\ loginResult = "none"
    /\ loginError = NoError
    /\ holdSeen = FALSE
    /\ attemptAfterHold = FALSE
    /\ logins = 0

StoreInit ==
    /\ now = 0
    /\ cookieFile \in
         {NoFile, CorruptFile}
         \cup {Doc(c, 0 - a) : c \in {<<>>, <<"s1">>},
                               a \in {0, 6 * DayMs, maxAge - 1, maxAge, maxAge + 1,
                                      8 * DayMs}}
         \cup {DocNoDate(<<"s1">>)}

\* login(), lines 85-88: load the stored cookies and inject them
LoginStart ==
    /\ loginPc = "idle"
    /\ logins < MaxLogins
    /\ logins' = logins + 1
    /\ loaded' = loadCookies(cookieFile, now)
    /\ IF ~loaded'.isNull /\ Len(loaded'.cookies) > 0
       THEN /\ contextCookies' = loaded'.cookies
            /\ loginPc' = "validate"
       ELSE /\ contextCookies' = contextCookies
            /\ loginPc' = "perform"
    /\ UNCHANGED <<credsSet, validation, attempt, lastAttempt, waited, loginResult,
                   loginError, holdSeen, attemptAfterHold, storeVars, notLogin>>

\* login(), lines 91-97: open the dashboard and test the logged-in state
ValidateSession ==
    /\ loginPc = "validate"
    /\ \E p \in ValidationPages :
         /\ (~p.gotoOk => ~p.probeThrows /\ ~p.holdMarkup /\ ~p.dashboardEl)
         /\ IF ~p.gotoOk
            THEN /\ loginPc' = "done"
                 /\ loginResult' = "failed"
                 /\ loginError' = Propagated(MsgNavigation)
                 /\ validation' = "unreached"
                 /\ UNCHANGED holdSeen
            ELSE /\ holdSeen' = (p.holdMarkup /\ ~p.probeThrows)
                 /\ validation' = IF isLoggedIn(p) THEN "confirmed" ELSE "rejected"
                 /\ IF afterValidation(isLoggedIn(p)) = "return"
                    THEN /\ loginPc' = "done"
                         /\ loginResult' = "ok"
                    ELSE /\ loginPc' = "perform"
                         /\ loginResult' = "none"
                 /\ loginError' = NoError
    /\ UNCHANGED <<credsSet, loaded, contextCookies, attempt, lastAttempt, waited,
                   attemptAfterHold, logins, storeVars, notLogin>>

\* performLogin, lines 12-43: the loop test and the try block of one attempt
LoginAttempt ==
    /\ loginPc = "perform"
    /\ attempt < maxRetries
    /\ \E p \in AttemptPages :
         /\ attempt' = attempt + 1
         /\ lastAttempt' = loginAttempt(p, credsSet)
         /\ attemptAfterHold' = (attemptAfterHold \/ holdSeen)
         /\ holdSeen' = (holdSeen \/ p.hold)
    /\ loginPc' = "attempted"
    /\ UNCHANGED <<credsSet, loaded, contextCookies, validation, waited, loginResult,
                   loginError, logins, storeVars, notLogin>>

\* performLogin, lines 43-57: return after a successful attempt, or the catch
\* block: throw at the last attempt, else back off and test the loop again
AttemptEnd ==
    /\ loginPc = "attempted"
    /\ IF lastAttempt.ok
       THEN /\ loginPc' = "save"
            /\ UNCHANGED <<lastAttempt, waited, loginResult, loginError>>
       ELSE LET cb == catchBlock(attempt, lastAttempt.msg)
            IN  CASE cb.next = "throw" ->
                       /\ loginPc' = "done"
                       /\ loginResult' = "failed"
                       /\ loginError' = cb.error
                       /\ UNCHANGED <<lastAttempt, waited>>
                  [] cb.next = "retry" ->
                       /\ loginPc' = "perform"
                       /\ lastAttempt' = NoAttempt
                       /\ \E d \in backoffDelays(attempt) : waited' = waited + d
                       /\ UNCHANGED <<loginResult, loginError>>
                  [] OTHER ->
                       /\ loginPc' = "save"
                       /\ \E d \in backoffDelays(attempt) : waited' = waited + d
                       /\ UNCHANGED <<lastAttempt, loginResult, loginError>>
    /\ UNCHANGED <<credsSet, loaded, contextCookies, validation, attempt, holdSeen,
                   attemptAfterHold, logins, storeVars, notLogin>>

\* login(), lines 104-107: store the cookies of the fresh session.  The server
\* issues a token other than the one the context held before.
SaveSession ==
    /\ loginPc = "save"
    /\ \E t \in Tokens :
         /\ <<t>> # contextCookies
         /\ contextCookies' = <<t>>
         /\ cookieFile' = saveCookies(<<t>>, now)
    /\ loginPc' = "done"
    /\ loginResult' = "ok"
    /\ UNCHANGED <<now, credsSet, loaded, validation, attempt, lastAttempt, waited,
                   loginError, holdSeen, attemptAfterHold, logins, notLogin>>

\* the login() call has returned or thrown: its locals are gone
LoginReturn ==
    /\ loginPc = "done"
    /\ loginPc' = "idle"
    /\ loaded' = Null
    /\ validation' = "none"
    /\ attempt' = 0
    /\ lastAttempt' = NoAttempt
    /\ waited' = 0
    /\ loginResult' = "none"
    /\ loginError' = NoError
    /\ holdSeen' = FALSE
    /\ attemptAfterHold' = FALSE
    /\ UNCHANGED <<credsSet, contextCookies, logins, storeVars, notLogin>>

\* time passes between two calls
TimePasses ==
    /\ loginPc = "idle"
    /\ now < MaxClockSteps * ClockStep
    /\ now' = now + ClockStep
    /\ UNCHANGED <<cookieFile, loginVars, notLogin>>

LoginNext == LoginStart \/ ValidateSession \/ LoginAttempt \/ AttemptEnd
             \/ SaveSession \/ LoginReturn \/ TimePasses

(***************************************************************************)
(* ChatManager: per-element extraction, ordering and deduplication         *)
(***************************************************************************)
Texts == {"", "a", "b"}           \* trimmed text content; "" : no text
\* the element's time text or attribute: none, or a well-formed ISO instant
NoTime == [kind |-> "none", value |-> 0]
Iso(v) == [kind |-> "iso", value |-> v]
TimeAttrs == {NoTime, Iso(0), Iso(600), Iso(1200)}

Elements == [text : Texts, time : TimeAttrs, own : BOOLEAN, senderName : {""}]

SeqUpTo(S, n) == UNION {[1..k -> S] : k \in 0..n}

\* what page.$$(selector) gives: an exception, or the matching elements
QueryResults ==
    {[threw |-> TRUE, els |-> <<>>]}
    \cup {[threw |-> FALSE, els |-> s] : s \in SeqUpTo(Elements, MaxElems)}

NoMessage == [isNull |-> TRUE, text |-> "", sender |-> "", timestamp |-> 0,
              type |-> "", sel |-> 0]

\* extractMessageData(page, element, index) evaluated at instant t; `sel` is
\* the selector whose query returned the element (it stands for element_class).
\* Line 342 calls element.evaluate(fn, element, index): the page function gets
\* the element itself and ONE argument, so its `idx` is bound to `element`,
\* never to `index`.  Where the timestamp is synthesised (no time text, or one
\* that is not ISO) `now.getMinutes() - idx` is NaN, setMinutes makes the date
\* invalid and toISOString() throws RangeError; the evaluate rejects and the
\* catch at 346-349 returns null.  Only an element carrying a valid ISO
\* timestamp yields a message.
extractMessageData(el, idx, t, sel) ==
    IF el.text = "" THEN NoMessage
    ELSE IF el.time.kind # "iso" THEN NoMessage
    ELSE [isNull    |-> FALSE,
          text      |-> el.text,
          sender    |-> IF el.senderName # "" THEN el.senderName
                        ELSE IF el.own THEN "me" ELSE "other",
          timestamp |-> el.time.value,
          type      |-> IF el.own THEN "sent" ELSE "received",
          sel       |-> sel]

\* lines 205-212: the messages of one query's elements, index 0 first
RECURSIVE extractAll(_, _, _, _)
extractAll(els, i, t, sel) ==
    IF i > Len(els) THEN <<>>
    ELSE LET m == extractMessageData(els[i], i - 1, t, sel)
         IN  (IF m.isNull THEN <<>> ELSE <<m>>) \o extractAll(els, i + 1, t, sel)

\* one selector of the loop, without the break after a match
selectorStepNoBreak(msgs, r, t, sel) ==
    IF r.threw THEN [messages |-> msgs, stop |-> FALSE]
    ELSE IF Len(r.els) > 0
         THEN [messages |-> msgs \o extractAll(r.els, 1, t, sel), stop |-> FALSE]
         ELSE [messages |-> msgs, stop |-> FALSE]

\* lines 198-219: one selector of the loop; stop is the break
selectorStep(msgs, r, t, sel) ==
    IF r.threw THEN [messages |-> msgs, stop |-> FALSE]
    ELSE IF Len(r.els) > 0
         THEN [messages |-> msgs \o extractAll(r.els, 1, t, sel), stop |-> TRUE]
         ELSE [messages |-> msgs, stop |-> FALSE]

\* Array.prototype.sort with the comparator a.timestamp - b.timestamp (stable)
RECURSIVE insertByTime(_, _)
insertByTime(sorted, m) ==
    IF sorted = <<>> THEN <<m>>
    ELSE IF m.timestamp < sorted[Len(sorted)].timestamp
         THEN Append(insertByTime(SubSeq(sorted, 1, Len(sorted) - 1), m),
                     sorted[Len(sorted)])
         ELSE Append(sorted, m)

RECURSIVE sortFrom(_, _)
sortFrom(arr, i) ==
    IF i = 0 THEN <<>> ELSE insertByTime(sortFrom(arr, i - 1), arr[i])

\* the messages left in extraction order
sortMessagesSkipped(arr) == arr

\* line 222
sortMessages(arr) == sortFrom(arr, Len(arr))

Abs(x) == IF x < 0 THEN 0 - x ELSE x

DedupWindowMs == 1000

\* the duplicate test with the timestamps compared for equality only
isDuplicateExactTime(m, n) == m.text = n.text /\ m.timestamp = n.timestamp

\* lines 227-228: the predicate given to findIndex
isDuplicate(m, n) ==
    m.text = n.text /\ Abs(m.timestamp - n.timestamp) < DedupWindowMs

Min(S) == CHOOSE x \in S : \A y \in S : x <= y

\* array.findIndex(...), 1-based; 0 when nothing matches
findIndex(arr, message) ==
    LET hits == {k \in 1..Len(arr) : isDuplicate(arr[k], message)}
    IN  IF hits = {} THEN 0 ELSE Min(hits)

RECURSIVE filterFrom(_, _)
filterFrom(arr, i) ==
    IF i > Len(arr) THEN <<>>
    ELSE (IF i = findIndex(arr, arr[i]) THEN <<arr[i]>> ELSE <<>>)
         \o filterFrom(arr, i + 1)

\* lines 225-230
uniqueMessages(arr) == filterFrom(arr, 1)

(***************************************************************************)
(* StorageManager: the chat history document                               *)
(***************************************************************************)
Convs == {"c1", "c2"}             \* conversation ids

EmptyData == [c \in Convs |-> <<>>]

\* data/chat_history.json: absent, not parseable, or a parsed document; a
\* conversation without an entry reads as one with no messages (line 373)
ZeroCounts == [c \in Convs |-> 0]    \* messageCount of each entry

NoHistoryFile == [kind |-> "absent", data |-> EmptyData, counts |-> ZeroCounts]
CorruptHistoryFile == [kind |-> "corrupt", data |-> EmptyData, counts |-> ZeroCounts]
\* a document as earlier calls left it: messages d, messageCount their number
HistoryDoc(d) == [kind |-> "ok", data |-> d, counts |-> [c \in Convs |-> Len(d[c])]]
\* JSON.stringify(historyData) written by a call: messages d, messageCount n
Written(d, n) == [kind |-> "ok", data |-> d, counts |-> n]

\* lines 367-384, called without a conversation id: the whole document, {}
\* when the file is missing or does not parse
loadChatHistory(file) == IF file.kind = "ok" THEN file.data ELSE EmptyData

\* the messageCount fields of the same document
loadCounts(file) == IF file.kind = "ok" THEN file.counts ELSE ZeroCounts

appendWindowMs == 5000

\* lines 399-402: the predicate given to find
isExisting(m, message) ==
    m.text = message.text /\ Abs(m.timestamp - message.timestamp) < appendWindowMs

\* appendMessage that pushes without looking for an existing entry
appendMessageNoFind(file, c, message) ==
    Written([loadChatHistory(file) EXCEPT ![c] = Append(@, message)],
            [loadCounts(file) EXCEPT ![c] = Len(loadChatHistory(file)[c]) + 1])

\* appendMessage that pushes and leaves messageCount as it was
appendMessageStaleCount(file, c, message) ==
    LET historyData == loadChatHistory(file)
        existing == {k \in 1..Len(historyData[c]) :
                       isExisting(historyData[c][k], message)}
    IN  IF existing = {}
        THEN Written([historyData EXCEPT ![c] = Append(@, message)],
                     loadCounts(file))
        ELSE file

\* lines 386-416: the document on disk after appendMessage(c, message); the
\* file is written only when the message was pushed
appendMessage(file, c, message) ==
    LET historyData == loadChatHistory(file)
        existing == {k \in 1..Len(historyData[c]) :
                       isExisting(historyData[c][k], message)}
    IN  IF existing = {}
        THEN Written([historyData EXCEPT ![c] = Append(@, message)],
                     [loadCounts(file) EXCEPT ![c] = Len(historyData[c]) + 1])
        ELSE file

\* lines 330-365: the document on disk after saveChatHistory(c, messages)
saveChatHistory(file, c, msgs) ==
    Written([loadChatHistory(file) EXCEPT ![c] = msgs],
            [loadCounts(file) EXCEPT ![c] = Len(msgs)])

\* messages handed to the history API: text, and an ISO timestamp in ms
HistTimes == {0, 999, 1000, 5999}
HistMessages ==
    {[isNull |-> FALSE, text |-> x, sender |-> "other", timestamp |-> ts,
      type |-> "received", sel |-> 0] : x \in {"a", "b"}, ts \in HistTimes}

NoCall == [op |-> "none", conv |-> "", message |-> NoMessage, changed |-> FALSE,
           repeat |-> FALSE, prevChanged |-> FALSE, dupByExtraction |-> FALSE]

HistIdle ==
    /\ historyFile = NoHistoryFile
    /\ lastCall = NoCall

HistInit ==
    /\ historyFile \in {NoHistoryFile, CorruptHistoryFile, HistoryDoc(EmptyData)}
    /\ lastCall = NoCall

\* a direct call appendMessage(c, message)
AppendMessage ==
    /\ \E c \in Convs, message \in HistMessages :
         /\ Len(loadChatHistory(historyFile)[c]) < MaxStored
         /\ historyFile' = appendMessage(historyFile, c, message)
         /\ lastCall' =
              [op |-> "append", conv |-> c, message |-> message,
               changed |-> historyFile' # historyFile,
               repeat |-> (lastCall.op = "append" /\ lastCall.conv = c
                            /\ lastCall.message = message),
               prevChanged |-> lastCall.changed,
               dupByExtraction |->
                   \E k \in 1..Len(loadChatHistory(historyFile)[c]) :
                       isDuplicate(loadChatHistory(historyFile)[c][k], message)]
    /\ UNCHANGED notHist

HistNext == AppendMessage

\* messages handed to saveChatHistory
SaveMessages == {m \in HistMessages : m.text = "a" /\ m.timestamp \in {0, 999}}

MaxSaved == 2         \* messages one saveChatHistory call is given at most

\* a direct call saveChatHistory(c, msgs)
SaveChatHistory ==
    /\ \E c \in Convs, msgs \in SeqUpTo(SaveMessages, MaxSaved) :
         /\ historyFile' = saveChatHistory(historyFile, c, msgs)
         /\ lastCall' = [NoCall EXCEPT !.op = "save", !.conv = c]
    /\ UNCHANGED notHist

StoreCallsNext == AppendMessage \/ SaveChatHistory

(***************************************************************************)
(* ChatManager.scrollToLoadHistory                                         *)
(***************************************************************************)
maxScrollAttempts == 10

\* the break test with the attempt threshold written as 4
scrollDecisionLateBreak(att, current, previous) ==
    IF ~(att < maxScrollAttempts) THEN "exit"
    ELSE IF current = previous /\ att > 4 THEN "break"
    ELSE "scroll"

\* the break test without the attempt threshold
scrollDecisionNoMinimum(att, current, previous) ==
    IF ~(att < maxScrollAttempts) THEN "exit"
    ELSE IF current = previous THEN "break"
    ELSE "scroll"

\* the loop test written with <= instead of <
scrollDecisionCapOffByOne(att, current, previous) ==
    IF ~(att <= maxScrollAttempts) THEN "exit"
    ELSE IF current = previous /\ att > 2 THEN "break"
    ELSE "scroll"

\* lines 142-149: the loop test and the break test of one iteration
scrollDecision(att, current, previous) ==
    IF ~(att < maxScrollAttempts) THEN "exit"
    ELSE IF current = previous /\ att > 2 THEN "break"
    ELSE "scroll"

(***************************************************************************)
(* ChatManager.fetchChatHistory                                            *)
(***************************************************************************)
\* container : one of chatSelectors appeared within its 2 s wait
\* bodyOk    : waitForSelector('body') resolved
\* probe     : the page holds an element with a message/chat/conversation
\*             class or id
DetectPages == [container : BOOLEAN, bodyOk : BOOLEAN, probe : BOOLEAN]

MsgNoContainer == "Could not find chat container. Available selectors tried: ..."

\* lines 72-118
containerDecision(p) ==
    IF p.container THEN "scroll"
    ELSE IF p.bodyOk /\ p.probe THEN "scroll"
    ELSE "throw"

FetchIdle ==
    /\ fetchPc = "idle"
    /\ pageCount = 0
    /\ scrollAttempt = 0
    /\ previousMessageCount = 0
    /\ reads = 0
    /\ unchangedReads = 0
    /\ growthRun = 0
    /\ phase = "growing"
    /\ selIdx = 0
    /\ messages = <<>>
    /\ winner = 0
    /\ queryThrew = FALSE
    /\ result = <<>>
    /\ fetchError = ""

FetchInit ==
    /\ fetchPc = "detect"
    /\ pageCount \in 0..MaxCount
    /\ scrollAttempt = 0
    /\ previousMessageCount = 0
    /\ reads = 0
    /\ unchangedReads = 0
    /\ growthRun = 0
    /\ phase = "growing"
    /\ selIdx = 0
    /\ messages = <<>>
    /\ winner = 0
    /\ queryThrew = FALSE
    /\ result = <<>>
    /\ fetchError = ""

\* the login and store variables while only the extractor runs
LoginIdle ==
    /\ credsSet = TRUE
    /\ loginPc = "idle"
    /\ loaded = Null
    /\ contextCookies = <<>>
    /\ validation = "none"
    /\ attempt = 0
    /\ lastAttempt = NoAttempt
    /\ waited = 0
    /\ loginResult = "none"
    /\ loginError = NoError
    /\ holdSeen = FALSE
    /\ attemptAfterHold = FALSE
    /\ logins = 0

StoreIdle ==
    /\ now = 0
    /\ cookieFile = NoFile

\* fetchChatHistory, lines 72-118: find the chat container, else the fallback
DetectContainer ==
    /\ fetchPc = "detect"
    /\ \E p \in DetectPages :
         /\ (p.container => p.bodyOk /\ p.probe)
         /\ IF containerDecision(p) = "throw"
            THEN /\ fetchPc' = "failed"
                 /\ fetchError' = MsgNoContainer
            ELSE /\ fetchPc' = "scroll"
                 /\ fetchError' = fetchError
    /\ UNCHANGED <<pageCount, scrollAttempt, previousMessageCount, reads,
                   unchangedReads, growthRun, phase, selIdx, messages, winner,
                   queryThrew, result, notFetch>>

\* scrollToLoadHistory, lines 142-174: one iteration of the loop.  The count
\* the page shows after the scroll and its settle time is any count; the wait
\* for the loading indicator ends either way.
ScrollIteration ==
    /\ fetchPc = "scroll"
    /\ LET current == pageCount
           d == scrollDecision(scrollAttempt, current, previousMessageCount)
       IN  IF d = "scroll"
           THEN /\ reads' = reads + 1
                /\ unchangedReads' = IF reads > 0 /\ current = previousMessageCount
                                     THEN unchangedReads + 1 ELSE unchangedReads
                /\ \E n \in 0..MaxCount, loading \in {"absent", "hidden", "timeout"} :
                     /\ pageCount' = n
                     /\ growthRun' = IF phase = "growing" /\ n > current
                                     THEN growthRun + 1 ELSE growthRun
                     /\ phase' = IF phase = "growing" /\ n > current THEN "growing"
                                 ELSE IF phase # "other" /\ n = current THEN "flat"
                                 ELSE "other"
                /\ previousMessageCount' = current
                /\ scrollAttempt' = scrollAttempt + 1
                /\ fetchPc' = "scroll"
           ELSE /\ reads' = IF d = "break" THEN reads + 1 ELSE reads
                /\ unchangedReads' = IF d = "break" /\ reads > 0
                                        /\ current = previousMessageCount
                                     THEN unchangedReads + 1 ELSE unchangedReads
                /\ fetchPc' = "scrolled"
                /\ UNCHANGED <<pageCount, growthRun, phase, previousMessageCount,
                               scrollAttempt>>
    /\ UNCHANGED <<selIdx, messages, winner, queryThrew, result,
                   fetchError, notFetch>>

\* scrollToLoadHistory has returned; extractMessages starts with its first
\* selector
BeginExtract ==
    /\ fetchPc = "scrolled"
    /\ fetchPc' = "extract"
    /\ selIdx' = 1
    /\ scrollAttempt' = 0
    /\ previousMessageCount' = 0
    /\ reads' = 0
    /\ unchangedReads' = 0
    /\ growthRun' = 0
    /\ phase' = "growing"
    /\ pageCount' = 0
    /\ UNCHANGED <<messages, winner, queryThrew, result, fetchError,
                   notFetch>>

\* extractMessages, lines 198-232: one selector of the loop; after the break,
\* or after the last selector, the sort, the duplicate filter and the return
QuerySelector ==
    /\ fetchPc = "extract"
    /\ \E r \in QueryResults :
         LET st == selectorStep(messages, r, now, selIdx)
         IN  /\ messages' = st.messages
             /\ queryThrew' = (queryThrew \/ r.threw)
             /\ winner' = IF winner = 0 /\ ~r.threw /\ Len(r.els) > 0
                          THEN selIdx ELSE winner
             /\ IF st.stop \/ selIdx = NumSelectors
                THEN /\ fetchPc' = "done"
                     /\ selIdx' = selIdx
                     /\ result' = uniqueMessages(sortMessages(st.messages))
                ELSE /\ fetchPc' = "extract"
                     /\ selIdx' = selIdx + 1
                     /\ result' = result
    /\ UNCHANGED <<pageCount, scrollAttempt, previousMessageCount,
                   reads, unchangedReads, growthRun, phase, fetchError, notFetch>>

FetchNext == DetectContainer \/ ScrollIteration \/ BeginExtract \/ QuerySelector

(***************************************************************************)
(* InternshalaBot: sendMessage, fetchHistory, startListening, stopListening,*)
(* cleanup; ChatManager.startLiveListener                                  *)
(***************************************************************************)
\* elements the chat page shows or gains while it is watched: without text,
\* without an ISO time, and with both: received or own, with or without a
\* sender-name child
ChatElements ==
    {[text |-> "", time |-> Iso(0), own |-> FALSE, senderName |-> ""],
     [text |-> "a", time |-> NoTime, own |-> FALSE, senderName |-> ""]}
    \cup [text : {"a"}, time : {Iso(0)}, own : BOOLEAN, senderName : {"", "You"}]

ChatTickMs == 2500                \* one step of the clock between operations

NoSend == [ok |-> FALSE, conv |-> "", message |-> NoMessage,
           inputFound |-> FALSE, typed |-> FALSE, error |-> ""]

NumInputSelectors == 6            \* this.inputSelectors, part_000 lines 29-36
MsgNoInput == "Could not find message input field"
MsgSendFailed == "send failed"    \* an error of click, typing or send action
MsgChatNavigation == "chat navigation failed"

\* ChatManager.sendMessage typing into whatever the selector loop left
chatSendMessageNoInputCheck(matchIdx, actionOk) ==
    [inputFound |-> matchIdx # 0, typed |-> TRUE,
     error |-> IF actionOk THEN "" ELSE MsgSendFailed]

\* ChatManager.sendMessage, part_000 lines 352-389: matchIdx is the first
\* input selector with a match, 0 when none has one; actionOk tells whether
\* the click, the typing and the send action go through
chatSendMessage(matchIdx, actionOk) ==
    IF matchIdx = 0
    THEN [inputFound |-> FALSE, typed |-> FALSE, error |-> MsgNoInput]
    ELSE [inputFound |-> TRUE, typed |-> TRUE,
          error |-> IF actionOk THEN "" ELSE MsgSendFailed]

\* bot.js lines 188-194: the message sendMessage builds at instant t; its id
\* is Date.now() of the same instant
messageData(text, t) ==
    [isNull |-> FALSE, text |-> text, sender |-> "me", timestamp |-> t,
     type |-> "sent", sel |-> 0]

\* what fetchChatHistory can return: the sorted, filtered messages of the
\* elements the winning selector matched (no message depends on the instant
\* of the extraction, see extractMessageData)
FetchOutputs ==
    {uniqueMessages(sortMessages(extractAll(els, 1, 0, 1))) :
        els \in SeqUpTo(ChatElements, MaxPageElems)}

\* startLiveListener(page, conversationId, storage, isListeningCallback),
\* line 408: the function has no parameter, local or import named `stealth`
stealthInScope == FALSE

\* lines 468-474: after the body of a cycle (threw: the body raised an
\* error).  `stealth.randomDelay` at 469 raises ReferenceError when stealth
\* is not in scope, the catch at 471 runs, and 473 raises it again, outside
\* the inner try: the loop is left through the outer catch, which rethrows.
cycleEnd(threw) == IF stealthInScope THEN "test" ELSE "thrown"

\* lines 452-466: the flagged elements of one cycle, in document order; conv
\* is the conversationId argument, app the messages added to the history
RECURSIVE processNew(_, _, _, _, _, _)
processNew(els, i, file, conv, t, app) ==
    IF i > Len(els) THEN [file |-> file, elems |-> els, appended |-> app]
    ELSE IF ~els[i].flag THEN processNew(els, i + 1, file, conv, t, app)
    ELSE LET md == extractMessageData(els[i].el, 0, t, 0)
             keep == ~md.isNull /\ md.sender # "me"
             file2 == IF keep /\ conv # "none"
                      THEN appendMessage(file, conv, md) ELSE file
             el2 == [el |-> els[i].el,
                     flag |-> IF keep THEN FALSE ELSE TRUE,
                     cycles |-> els[i].cycles + 1]
         IN  processNew([els EXCEPT ![i] = el2], i + 1, file2, conv, t,
                        IF file2 # file THEN app \cup {md} ELSE app)

ChatIdle ==
    /\ pageOpen = TRUE
    /\ currentConversation = "none"
    /\ isListening = FALSE
    /\ listenPc = "idle"
    /\ listenConv = "none"
    /\ observer = FALSE
    /\ pageElems = <<>>
    /\ cancelledAtExit = FALSE
    /\ liveAppended = {}
    /\ lastSend = NoSend
    /\ lastOp = "none"
    /\ calls = 0

\* navigateToChat(c), lines 135-153, when it succeeds: a new document
Navigated(c) ==
    /\ currentConversation' = c
    /\ pageElems' = <<>>
    /\ observer' = FALSE

\* sendMessage(c, text), bot.js lines 177-205
SendMessage ==
    /\ calls < MaxCalls
    /\ calls' = calls + 1
    /\ lastOp' = "send"
    /\ \E c \in Convs, navOk \in BOOLEAN, matchIdx \in 0..NumInputSelectors,
          actionOk \in BOOLEAN :
         LET mustNavigate == currentConversation # c
             reached == pageOpen /\ (mustNavigate => navOk)
             chat == chatSendMessage(matchIdx, actionOk)
             sent == reached /\ chat.error = ""
         IN  /\ IF pageOpen /\ mustNavigate /\ navOk
                THEN Navigated(c)
                ELSE UNCHANGED <<currentConversation, pageElems, observer>>
             /\ IF sent
                THEN /\ historyFile' =
                          appendMessage(historyFile, c, messageData("a", now))
                     /\ lastSend' = [ok |-> TRUE, conv |-> c,
                                     message |-> messageData("a", now),
                                     inputFound |-> chat.inputFound,
                                     typed |-> chat.typed, error |-> ""]
                ELSE /\ lastSend' =
                          IF reached
                          THEN [NoSend EXCEPT !.inputFound = chat.inputFound,
                                              !.typed = chat.typed,
                                              !.error = chat.error]
                          ELSE [NoSend EXCEPT !.error = MsgChatNavigation]
                     /\ UNCHANGED historyFile
    /\ UNCHANGED <<now, pageOpen, isListening, listenPc, listenConv,
                   cancelledAtExit, liveAppended, notChat>>

\* fetchHistory(c), bot.js lines 155-175
FetchHistory ==
    /\ calls < MaxCalls
    /\ calls' = calls + 1
    /\ lastOp' = "fetch"
    /\ \E c \in Convs, navOk \in BOOLEAN, fetched \in BOOLEAN,
          history \in FetchOutputs :
         LET mustNavigate == currentConversation # c
             ok == pageOpen /\ (mustNavigate => navOk) /\ fetched
         IN  /\ IF pageOpen /\ mustNavigate /\ navOk
                THEN Navigated(c)
                ELSE UNCHANGED <<currentConversation, pageElems, observer>>
             /\ historyFile' = IF ok THEN saveChatHistory(historyFile, c, history)
                               ELSE historyFile
    /\ UNCHANGED <<now, pageOpen, isListening, listenPc, listenConv,
                   cancelledAtExit, liveAppended, lastSend, notChat>>

\* startListening(cid), bot.js lines 207-226, up to the first loop test of
\* startLiveListener (part_000 lines 411-444); one listener runs at a time
StartListening ==
    /\ calls < MaxCalls
    /\ listenPc \in {"idle", "failed", "returned", "thrown"}
    /\ calls' = calls + 1
    /\ lastOp' = "listen"
    /\ \E cid \in Convs \cup {"none"}, navOk \in BOOLEAN :
         LET mustNavigate == cid # "none" /\ currentConversation # cid
         IN  IF mustNavigate /\ ~(pageOpen /\ navOk)
             THEN UNCHANGED <<currentConversation, pageElems, observer,
                              isListening, listenPc, listenConv, cancelledAtExit>>
             ELSE /\ IF mustNavigate THEN currentConversation' = cid
                                     ELSE UNCHANGED currentConversation
                  /\ pageElems' = IF mustNavigate THEN <<>> ELSE pageElems
                  /\ IF isListening
                     THEN /\ observer' = IF mustNavigate THEN FALSE ELSE observer
                          /\ UNCHANGED <<isListening, listenPc, listenConv,
                                         cancelledAtExit>>
                     ELSE /\ isListening' = TRUE
                          /\ listenConv' = currentConversation'
                          /\ cancelledAtExit' = FALSE
                          /\ IF pageOpen
                             THEN observer' = TRUE /\ listenPc' = "test"
                             ELSE observer' = FALSE /\ listenPc' = "failed"
    /\ UNCHANGED <<now, historyFile, pageOpen, liveAppended, lastSend, notChat>>

\* the observer's callback, part_000 lines 414-435: an added element that
\* matches a message selector is flagged
NewElement ==
    /\ observer /\ pageOpen
    /\ Len(pageElems) < MaxPageElems
    /\ \E el \in ChatElements :
         pageElems' = Append(pageElems, [el |-> el, flag |-> TRUE, cycles |-> 0])
    /\ UNCHANGED <<now, historyFile, pageOpen, currentConversation, isListening,
                   listenPc, listenConv, observer, cancelledAtExit, liveAppended,
                   lastSend, lastOp, calls, notChat>>

\* line 447, and lines 480-488 when the test fails
LoopTest ==
    /\ listenPc = "test"
    /\ IF isListening
       THEN /\ listenPc' = "cycle"
            /\ UNCHANGED <<observer, cancelledAtExit>>
       ELSE /\ listenPc' = "returned"
            /\ observer' = FALSE
            /\ cancelledAtExit' = TRUE
    /\ UNCHANGED <<now, historyFile, pageOpen, currentConversation, isListening,
                   listenConv, pageElems, liveAppended, lastSend, lastOp, calls,
                   notChat>>

\* lines 448-474, and 477-488 when the loop is left by an error; the query
\* at 450 may reject (it does on a closed page)
Cycle ==
    /\ listenPc = "cycle"
    /\ \E queryRejects \in BOOLEAN :
       LET threw == ~pageOpen \/ queryRejects
           r == IF threw
                THEN [file |-> historyFile, elems |-> pageElems, appended |-> {}]
                ELSE processNew(pageElems, 1, historyFile, listenConv, now, {})
           next == cycleEnd(threw)
       IN  /\ historyFile' = r.file
           /\ pageElems' = r.elems
           /\ liveAppended' = liveAppended \cup r.appended
           /\ listenPc' = next
           /\ IF next = "thrown"
              THEN observer' = FALSE /\ cancelledAtExit' = ~isListening
              ELSE UNCHANGED <<observer, cancelledAtExit>>
    /\ UNCHANGED <<now, pageOpen, currentConversation, isListening, listenConv,
                   lastSend, lastOp, calls, notChat>>

\* stopListening(), bot.js lines 228-231
StopListening ==
    /\ calls < MaxCalls
    /\ calls' = calls + 1
    /\ lastOp' = "stop"
    /\ isListening' = FALSE
    /\ UNCHANGED <<now, historyFile, pageOpen, currentConversation, listenPc,
                   listenConv, observer, pageElems, cancelledAtExit, liveAppended,
                   lastSend, notChat>>

\* cleanup(), bot.js lines 233-254
Cleanup ==
    /\ calls < MaxCalls
    /\ pageOpen
    /\ calls' = calls + 1
    /\ lastOp' = "cleanup"
    /\ isListening' = FALSE
    /\ pageOpen' = FALSE
    /\ observer' = FALSE
    /\ pageElems' = <<>>
    /\ UNCHANGED <<now, historyFile, currentConversation, listenPc, listenConv,
                   cancelledAtExit, liveAppended, lastSend, notChat>>

\* time passes between two operations
ChatTick ==
    /\ now < MaxChatTicks * ChatTickMs
    /\ now' = now + ChatTickMs
    /\ UNCHANGED <<historyFile, chatVars, notChat>>

ChatNext == SendMessage \/ FetchHistory \/ StartListening \/ NewElement
            \/ LoopTest \/ Cycle \/ StopListening \/ Cleanup \/ ChatTick

(***************************************************************************)
(* StorageManager: reading the two store files                             *)
(***************************************************************************)
NoConv == ""                      \* loadChatHistory() without a conversation id

NoRead == [op |-> "none", fileKind |-> "absent", conv |-> NoConv,
           raised |-> FALSE, logged |-> FALSE, cookies |-> Null,
           data |-> EmptyData, entry |-> <<>>]

\* what fs.readFile followed by JSON.parse throws inside the try block
readJson(kind) ==
    CASE kind = "absent" -> "ENOENT"
      [] kind = "corrupt" -> "SyntaxError"
      [] OTHER -> ""

notStoreRead == <<storeVars, loginVars, fetchVars, histVars, chatVars,
                  attemptPage, pollVars, pageEls, mcpVars, lateVars>>

\* loadCookies whose catch block lets the error go on to the caller
tryLoadCookiesNoCatch(file, t) ==
    [NoRead EXCEPT !.op = "loadCookies", !.fileKind = file.kind,
                   !.raised = readJson(file.kind) # "",
                   !.cookies = loadCookies(file, t)]

\* loadCookies as its caller sees it, lines 293-316: the catch block logs
\* every error but ENOENT and returns null
tryLoadCookies(file, t) ==
    [NoRead EXCEPT !.op = "loadCookies", !.fileKind = file.kind,
                   !.raised = FALSE,
                   !.logged = readJson(file.kind) \notin {"", "ENOENT"},
                   !.cookies = loadCookies(file, t)]

\* loadChatHistory(conversationId) as its caller sees it, lines 367-384: the
\* entry of the conversation (an empty one when it has none), or the whole
\* document when no id is given; the catch block returns the empty value
tryLoadChatHistory(file, conv) ==
    [NoRead EXCEPT !.op = "loadChatHistory", !.fileKind = file.kind,
                   !.conv = conv,
                   !.raised = FALSE,
                   !.logged = readJson(file.kind) \notin {"", "ENOENT"},
                   !.data = IF conv = NoConv THEN loadChatHistory(file)
                            ELSE EmptyData,
                   !.entry = IF conv = NoConv THEN <<>>
                             ELSE loadChatHistory(file)[conv]]

(***************************************************************************)
(* CaptchaManager.pollForResult, nlp.js lines 548-584                      *)
(***************************************************************************)
pollInterval == 5000
maxWaitTime == 120000

\* time one getTaskResult request takes to settle (axios.post is given no
\* timeout), in ms
PollLatencies == {500, 3000}

\* what a request settles to: the promise rejects, or the response carries a
\* non-zero errorId, or status ready (with or without a solution object),
\* processing, or anything else
PollResponses == {"rejects", "apiError", "ready", "readyNoSolution",
                  "processing", "unexpected"}

\* lines 551-578: the body of the loop for one response. Reading .text of a
\* missing solution throws inside the try block and is caught like a
\* rejected request
pollBody(resp) ==
    CASE resp = "ready" -> "returnSolution"
      [] resp \in {"apiError", "unexpected"} -> "returnNull"
      [] resp = "processing" -> "sleep"
      [] resp \in {"rejects", "readyNoSolution"} -> "sleep"

PollIdle ==
    /\ pollPc = "idle"
    /\ pollElapsed = 0
    /\ polls = 0
    /\ pollResult = "none"

\* line 549 done: startTime taken
PollInit ==
    /\ pollPc = "test"
    /\ pollElapsed = 0
    /\ polls = 0
    /\ pollResult = "none"

notPoll == <<storeVars, loginVars, fetchVars, histVars, chatVars, attemptPage,
             storeRead, pageEls, mcpVars, lateVars>>

\* line 551, and 582-583 when the test fails
PollTest ==
    /\ pollPc = "test"
    /\ IF pollElapsed < maxWaitTime
       THEN /\ pollPc' = "request"
            /\ polls' = polls + 1
            /\ UNCHANGED pollResult
       ELSE /\ pollPc' = "returned"
            /\ pollResult' = "null"
            /\ UNCHANGED polls
    /\ UNCHANGED <<pollElapsed, notPoll>>

\* lines 553-572: the request settles and the body runs up to its next await
PollRequest ==
    /\ pollPc = "request"
    /\ \E lat \in PollLatencies, resp \in PollResponses :
         /\ pollElapsed' = pollElapsed + lat
         /\ pollPc' = IF pollBody(resp) = "sleep" THEN "sleep" ELSE "returned"
         /\ pollResult' = CASE pollBody(resp) = "returnSolution" -> "solution"
                            [] pollBody(resp) = "returnNull" -> "null"
                            [] OTHER -> pollResult
    /\ UNCHANGED <<polls, notPoll>>

\* lines 564-565 and 578: the pollInterval timer fires
PollSleep ==
    /\ pollPc = "sleep"
    /\ pollElapsed' = pollElapsed + pollInterval
    /\ pollPc' = "test"
    /\ UNCHANGED <<polls, pollResult, notPoll>>

PollNext == PollTest \/ PollRequest \/ PollSleep

(***************************************************************************)
(* extractMessages on a page of timestamp-less messages                    *)
(***************************************************************************)
MaxPageLen == 5       \* elements the winning selector matches at most

\* elements with text and without a time child
TimelessElements ==
    [text : Texts \ {""}, time : {NoTime}, own : BOOLEAN, senderName : {""}]

ExtractInit ==
    /\ fetchPc = "extractPage"
    /\ pageCount = 0
    /\ scrollAttempt = 0
    /\ previousMessageCount = 0
    /\ reads = 0
    /\ unchangedReads = 0
    /\ growthRun = 0
    /\ phase = "growing"
    /\ selIdx = 0
    /\ messages = <<>>
    /\ winner = 0
    /\ queryThrew = FALSE
    /\ result = <<>>
    /\ fetchError = ""
    /\ pageEls \in SeqUpTo(TimelessElements, MaxPageLen) \ {<<>>}

\* extractMessages, lines 194-233, on a page where candidate w is the first
\* to match anything and matches pageEls
ExtractPage ==
    /\ fetchPc = "extractPage"
    /\ \E w \in 1..NumSelectors :
         LET st == selectorStep(<<>>, [threw |-> FALSE, els |-> pageEls], now, w)
         IN  /\ messages' = st.messages
             /\ winner' = w
             /\ selIdx' = w
             /\ result' = uniqueMessages(sortMessages(st.messages))
    /\ fetchPc' = "extracted"
    /\ UNCHANGED <<pageCount, scrollAttempt, previousMessageCount, reads,
                   unchangedReads, growthRun, phase, queryThrew, fetchError,
                   storeVars, loginVars, histVars, chatVars, attemptPage,
                   storeRead, pollVars, pageEls, mcpVars, lateVars>>

ExtractNext == ExtractPage

(***************************************************************************)
(* MCPServer.handleToolCall, mcp.js lines 376-400, and its handlers        *)
(***************************************************************************)
MaxToolCalls == 3     \* handleToolCall() calls in one behaviour

\* the keys of this.tools, lines 9-124
McpTools == {"fetch_history", "listen_live", "send_message",
             "get_conversations", "search_messages", "get_bot_status"}

NoResult == [tool |-> "none", success |-> FALSE, threw |-> FALSE,
             botFailed |-> FALSE]

\* listenLive, lines 155-188: startListening is called and its promise kept
\* in a local that nothing awaits or attaches a handler to; the handler
\* returns success at once
listenLive == [success |-> TRUE, promise |-> "pending"]

\* the other handlers, lines 126-153, 190-351: the bot operation is awaited
\* inside try, the catch block returns {success: false, error}
awaitingHandler(botFails) == [success |-> ~botFails]

\* handleToolCall, lines 376-400: botFails tells whether the bot operation
\* behind the tool rejects
handleToolCall(tool, botFails) ==
    IF tool \notin McpTools
    THEN [tool |-> "unknown", success |-> FALSE, threw |-> FALSE,
          botFailed |-> FALSE]
    ELSE IF tool = "listen_live"
    THEN [tool |-> tool, success |-> listenLive.success,
          threw |-> FALSE, botFailed |-> FALSE]
    ELSE [tool |-> tool, success |-> awaitingHandler(botFails).success,
          threw |-> FALSE, botFailed |-> botFails]

McpIdle ==
    /\ mcpCalls = 0
    /\ toolResult = NoResult
    /\ listenPromise = "none"
    /\ listenReport = FALSE
    /\ unhandled = FALSE

notMcp == <<storeVars, loginVars, fetchVars, histVars, chatVars, attemptPage,
            storeRead, pollVars, pageEls, lateVars>>

\* one call of a tool other than listen_live, or of a name that is no tool
ToolCall ==
    /\ mcpCalls < MaxToolCalls
    /\ mcpCalls' = mcpCalls + 1
    /\ \E tool \in (McpTools \ {"listen_live"}) \cup {"no_such_tool"},
          botFails \in BOOLEAN :
         toolResult' = handleToolCall(tool, botFails)
    /\ UNCHANGED <<listenPromise, listenReport, unhandled, notMcp>>

\* one call of listen_live while no earlier listener promise is pending
ListenLiveCall ==
    /\ mcpCalls < MaxToolCalls
    /\ listenPromise # "pending"
    /\ mcpCalls' = mcpCalls + 1
    /\ toolResult' = handleToolCall("listen_live", FALSE)
    /\ listenReport' = listenLive.success
    /\ listenPromise' = listenLive.promise
    /\ UNCHANGED <<unhandled, notMcp>>

\* bot.js lines 207-226: the promise of startListening settles; it rejects
\* when navigateToChat or startLiveListener throws, and is fulfilled when
\* the loop ends after stopListening
ListenerSettles ==
    /\ listenPromise = "pending"
    /\ \E rejects \in BOOLEAN :
         /\ listenPromise' = IF rejects THEN "rejected" ELSE "fulfilled"
         /\ unhandled' = (unhandled \/ rejects)
    /\ UNCHANGED <<mcpCalls, toolResult, listenReport, notMcp>>

McpNext == ToolCall \/ ListenLiveCall \/ ListenerSettles

(***************************************************************************)
(* Per-element classification: ChatManager.extractMessageData and the      *)
(* inline extractor of index.js                                            *)
(***************************************************************************)
MaxIndex == 2         \* largest index of an element in its pass

SelfMarker == "You:"              \* index.js line 241
MarkedText == "You: a"            \* a text that contains the marker

\* time texts that are not ISO: "N minutes/hours ago" (value: N of the unit,
\* in ms) and anything else, such as "12:47 AM"
Relative(ms) == [kind |-> "relative", value |-> ms]
OtherTime == [kind |-> "other", value |-> 0]

ClassElements ==
    [text : {"", "a", MarkedText},
     time : {NoTime, Iso(0), Iso(600), Relative(5 * 60000), Relative(2 * 3600000),
             OtherTime},
     own : BOOLEAN,
     senderName : {"", "You", "Ann"}]

NoElement == [text |-> "", time |-> NoTime, own |-> FALSE, senderName |-> ""]

NoClass == [by |-> "none", message |-> NoMessage]

\* index.js lines 236-255: the inline extractor of extractAllChats, at
\* instant t
inlineExtract(el, t) ==
    IF el.text = "" THEN NoMessage
    ELSE LET isSent == el.own \/ el.text = MarkedText
         IN  [isNull    |-> FALSE,
              text      |-> el.text,
              sender    |-> IF isSent THEN "me" ELSE "other",
              timestamp |-> t,
              type      |-> IF isSent THEN "sent" ELSE "received",
              sel       |-> 0]

ClassIdle ==
    /\ elem = NoElement
    /\ elemIdx = 0
    /\ classified = NoClass

ClassInit ==
    /\ elem \in ClassElements
    /\ elemIdx \in 0..MaxIndex
    /\ classified = NoClass

notClass == <<storeVars, loginVars, fetchVars, histVars, chatVars, attemptPage,
              storeRead, pollVars, pageEls, mcpVars, rmwVars, watchVars>>

\* extractMessages line 207: extractMessageData(page, element, i)
ClassifyElement ==
    /\ classified = NoClass
    /\ classified' = [by |-> "extractMessageData",
                      message |-> extractMessageData(elem, elemIdx, now, 1)]
    /\ UNCHANGED <<elem, elemIdx, notClass>>

\* index.js lines 232-258: the same element read by extractAllChats
ClassifyInline ==
    /\ classified = NoClass
    /\ classified' = [by |-> "extractAllChats", message |-> inlineExtract(elem, now)]
    /\ UNCHANGED <<elem, elemIdx, notClass>>

ClassNext == ClassifyElement \/ ClassifyInline

(***************************************************************************)
(* Two calls of the history API that overlap at their awaits               *)
(***************************************************************************)
Writers == {1, 2}

\* appendMessage(conv, msgs[1]) or saveChatHistory(conv, msgs)
RmwOps ==
    LET m1 == CHOOSE m \in HistMessages : m.text = "a" /\ m.timestamp = 0
        m2 == CHOOSE m \in HistMessages : m.text = "b" /\ m.timestamp = 0
    IN  [kind : {"append"}, conv : Convs, msgs : {<<m1>>, <<m2>>}]
        \cup [kind : {"save"}, conv : Convs, msgs : {<<>>, <<m1>>}]

\* the document a call leaves when it runs alone on `file`
applyOp(op, file) ==
    IF op.kind = "append" THEN appendMessage(file, op.conv, op.msgs[1])
    ELSE saveChatHistory(file, op.conv, op.msgs)

\* whether the call reaches its writeFile: saveChatHistory always does (line
\* 350), appendMessage only when it pushed the message (lines 404-411)
writes(op, snap) == op.kind = "save" \/ applyOp(op, snap) # snap

RmwIdle ==
    /\ rmwBase = NoHistoryFile
    /\ rmwOps = [w \in Writers |-> [kind |-> "save", conv |-> "c1", msgs |-> <<>>]]
    /\ rmwPc = [w \in Writers |-> "done"]
    /\ rmwSnap = [w \in Writers |-> NoHistoryFile]

RmwInit ==
    /\ historyFile \in {NoHistoryFile, CorruptHistoryFile, HistoryDoc(EmptyData)}
    /\ lastCall = NoCall
    /\ rmwBase = historyFile
    /\ rmwOps \in [Writers -> RmwOps]
    /\ rmwPc = [w \in Writers |-> "start"]
    /\ rmwSnap = [w \in Writers |-> NoHistoryFile]

notRmw == <<storeVars, loginVars, fetchVars, chatVars, attemptPage, storeRead,
            pollVars, pageEls, mcpVars, classVars, watchVars>>

\* the await of readFile (lines 336, 369) has completed for writer w
RmwRead(w) ==
    /\ rmwPc[w] = "start"
    /\ rmwSnap' = [rmwSnap EXCEPT ![w] = historyFile]
    /\ rmwPc' = [rmwPc EXCEPT ![w] = "read"]
    /\ UNCHANGED <<historyFile, lastCall, rmwBase, rmwOps, notRmw>>

\* the document is changed in memory and written back whole (lines 350, 409)
RmwWrite(w) ==
    /\ rmwPc[w] = "read"
    /\ historyFile' = IF writes(rmwOps[w], rmwSnap[w])
                      THEN applyOp(rmwOps[w], rmwSnap[w])
                      ELSE historyFile
    /\ rmwPc' = [rmwPc EXCEPT ![w] = "done"]
    /\ UNCHANGED <<lastCall, rmwBase, rmwOps, rmwSnap, notRmw>>

RmwNext == \E w \in Writers : RmwRead(w) \/ RmwWrite(w)

(***************************************************************************)
(* startListening, stopListening, cleanup and listen_live duration timers  *)
(* in any order on one bot: every startLiveListener call has its own loop  *)
(***************************************************************************)
MaxLoops == 2         \* startLiveListener calls that may be in flight together
MaxWatchCalls == 3    \* startListening / stopListening / cleanup calls

LoopSlots == 1..MaxLoops

NoStop == [by |-> "none", owner |-> 0, session |-> 0]

WatchIdle ==
    /\ loops = [i \in LoopSlots |-> "none"]
    /\ sessionNo = 0
    /\ timers = {}
    /\ lastStop = NoStop
    /\ watchCalls = 0

notWatch == <<storeVars, loginVars, fetchVars, histVars, currentConversation,
              listenPc, listenConv, observer, pageElems, cancelledAtExit,
              liveAppended, lastSend, lastOp, calls, attemptPage, storeRead,
              pollVars, pageEls, mcpVars, classVars, rmwVars>>

\* the loops that are at their test or inside a cycle
polling == {i \in LoopSlots : loops[i] \in {"test", "cycle"}}

\* the session the flag stands for, 0 when it is false
currentSession == IF isListening THEN sessionNo ELSE 0

\* startListening(), bot.js lines 207-226, for the conversation the page
\* shows; withDuration: the call comes from listen_live with a duration,
\* which arms a timer that calls stopListening (mcp.js lines 163-168)
WatchStart ==
    /\ watchCalls < MaxWatchCalls
    /\ watchCalls' = watchCalls + 1
    /\ \E withDuration \in BOOLEAN :
         /\ IF isListening
            THEN UNCHANGED <<isListening, loops, sessionNo>>
            ELSE /\ \E i \in LoopSlots :
                      /\ loops[i] \in {"none", "ended"}
                      /\ \A j \in LoopSlots :
                            loops[j] \in {"none", "ended"} => i <= j
                      /\ loops' = [loops EXCEPT ![i] = "setup"]
                 /\ isListening' = TRUE
                 /\ sessionNo' = sessionNo + 1
         /\ timers' = IF withDuration THEN timers \cup {sessionNo'} ELSE timers
    /\ UNCHANGED <<pageOpen, lastStop, notWatch>>

\* part_000 lines 411-444: the observer is installed; on a closed page the
\* evaluate rejects and the call ends
WatchSetup(i) ==
    /\ loops[i] = "setup"
    /\ loops' = [loops EXCEPT ![i] = IF pageOpen THEN "test" ELSE "ended"]
    /\ UNCHANGED <<isListening, pageOpen, sessionNo, timers, lastStop,
                   watchCalls, notWatch>>

\* line 447: the loop test reads the shared flag
WatchTest(i) ==
    /\ loops[i] = "test"
    /\ loops' = [loops EXCEPT ![i] = IF isListening THEN "cycle" ELSE "ended"]
    /\ UNCHANGED <<isListening, pageOpen, sessionNo, timers, lastStop,
                   watchCalls, notWatch>>

\* lines 448-474: one cycle, up to the next test or out of the loop
WatchCycle(i) ==
    /\ loops[i] = "cycle"
    /\ loops' = [loops EXCEPT ![i] =
                   IF cycleEnd(~pageOpen) = "test" THEN "test" ELSE "ended"]
    /\ UNCHANGED <<isListening, pageOpen, sessionNo, timers, lastStop,
                   watchCalls, notWatch>>

\* stopListening(), bot.js lines 228-231
WatchStop ==
    /\ watchCalls < MaxWatchCalls
    /\ watchCalls' = watchCalls + 1
    /\ isListening' = FALSE
    /\ lastStop' = [by |-> "stopListening", owner |-> 0, session |-> currentSession]
    /\ UNCHANGED <<pageOpen, loops, sessionNo, timers, notWatch>>

\* cleanup(), bot.js lines 233-254
WatchCleanup ==
    /\ watchCalls < MaxWatchCalls
    /\ pageOpen
    /\ watchCalls' = watchCalls + 1
    /\ isListening' = FALSE
    /\ pageOpen' = FALSE
    /\ lastStop' = [by |-> "cleanup", owner |-> 0, session |-> currentSession]
    /\ UNCHANGED <<loops, sessionNo, timers, notWatch>>

\* mcp.js lines 164-167: a duration timer fires and calls stopListening
WatchTimer ==
    /\ \E t \in timers :
         /\ timers' = timers \ {t}
         /\ lastStop' = [by |-> "timer", owner |-> t, session |-> currentSession]
    /\ isListening' = FALSE
    /\ UNCHANGED <<pageOpen, loops, sessionNo, watchCalls, notWatch>>

WatchNext ==
    \/ WatchStart \/ WatchStop \/ WatchCleanup \/ WatchTimer
    \/ \E i \in LoopSlots : WatchSetup(i) \/ WatchTest(i) \/ WatchCycle(i)

LateIdle == ClassIdle /\ RmwIdle /\ WatchIdle

RestIdle ==
    storeRead = NoRead /\ PollIdle /\ pageEls = <<>> /\ McpIdle /\ LateIdle

MoreIdle == attemptPage = NoPage /\ RestIdle

\* the store files as a start of the process may find them
StoresInit ==
    /\ now = 0
    /\ cookieFile \in
         {NoFile, CorruptFile, DocNoDate(<<"s1">>)}
         \cup {Doc(c, 0 - a) : c \in {<<>>, <<"s1">>}, a \in {0, maxAge, maxAge + 1}}
    /\ historyFile \in
         {NoHistoryFile, CorruptHistoryFile, HistoryDoc(EmptyData),
          HistoryDoc([EmptyData EXCEPT !["c1"] =
                        <<CHOOSE m \in HistMessages : TRUE>>])}
    /\ lastCall = NoCall

ReadCookies ==
    /\ storeRead' = tryLoadCookies(cookieFile, now)
    /\ UNCHANGED notStoreRead

ReadHistory ==
    /\ \E conv \in Convs \cup {NoConv} :
         storeRead' = tryLoadChatHistory(historyFile, conv)
    /\ UNCHANGED notStoreRead

StoreTick ==
    /\ now < MaxClockSteps * ClockStep
    /\ now' = now + ClockStep
    /\ UNCHANGED <<cookieFile, loginVars, fetchVars, histVars, chatVars, moreVars>>

StoresNext == ReadCookies \/ ReadHistory \/ StoreTick

InitStores == StoresInit /\ LoginIdle /\ FetchIdle /\ ChatIdle /\ MoreIdle

SpecStores == InitStores /\ [][StoresNext]_vars

InitPoll ==
    /\ StoreIdle /\ LoginIdle /\ FetchIdle /\ HistIdle /\ ChatIdle
    /\ attemptPage = NoPage /\ storeRead = NoRead /\ PollInit
    /\ pageEls = <<>> /\ McpIdle /\ LateIdle

\* extractMessages on its own, on any page of up to MaxPageLen messages
InitExtract ==
    /\ StoreIdle /\ LoginIdle /\ ExtractInit /\ HistIdle /\ ChatIdle
    /\ attemptPage = NoPage /\ storeRead = NoRead /\ PollIdle /\ McpIdle
    /\ LateIdle

SpecExtract == InitExtract /\ [][ExtractNext]_vars

\* the two extractors on one element of a pass
InitClass ==
    /\ StoreIdle /\ LoginIdle /\ FetchIdle /\ HistIdle /\ ChatIdle
    /\ attemptPage = NoPage /\ storeRead = NoRead /\ PollIdle
    /\ pageEls = <<>> /\ McpIdle /\ ClassInit /\ RmwIdle /\ WatchIdle

SpecClass == InitClass /\ [][ClassNext]_vars

\* two history calls started together on any document
InitRmw ==
    /\ StoreIdle /\ LoginIdle /\ FetchIdle /\ ChatIdle
    /\ attemptPage = NoPage /\ storeRead = NoRead /\ PollIdle
    /\ pageEls = <<>> /\ McpIdle /\ ClassIdle /\ RmwInit /\ WatchIdle

SpecRmw == InitRmw /\ [][RmwNext]_vars

\* the bot after login, listening calls and timers in any order
InitWatch == StoreIdle /\ LoginIdle /\ FetchIdle /\ HistIdle /\ ChatIdle /\ MoreIdle

SpecWatch == InitWatch /\ [][WatchNext]_vars

\* the tool-call surface on its own
InitMcp == StoreIdle /\ LoginIdle /\ FetchIdle /\ HistIdle /\ ChatIdle /\ MoreIdle

SpecMcp == InitMcp /\ [][McpNext]_vars

SpecPoll == InitPoll /\ [][PollNext]_vars

\* state when fetchChatHistory is entered: no login in progress
InitFetch == StoreIdle /\ LoginIdle /\ FetchInit /\ HistIdle /\ ChatIdle /\ MoreIdle

SpecFetch == InitFetch /\ [][FetchNext]_vars

\* scrollToLoadHistory on its own: entered with any count on the page; each
\* iteration's awaits (evaluate, delay, bounded indicator wait) complete
ScrollInit ==
    /\ fetchPc = "scroll"
    /\ pageCount \in 0..MaxCount
    /\ scrollAttempt = 0
    /\ previousMessageCount = 0
    /\ reads = 0
    /\ unchangedReads = 0
    /\ growthRun = 0
    /\ phase = "growing"
    /\ selIdx = 0
    /\ messages = <<>>
    /\ winner = 0
    /\ queryThrew = FALSE
    /\ result = <<>>
    /\ fetchError = ""

InitScroll == StoreIdle /\ LoginIdle /\ ScrollInit /\ HistIdle /\ ChatIdle /\ MoreIdle

ScrollNext == ScrollIteration

SpecScroll == InitScroll /\ [][ScrollNext]_vars /\ WF_vars(ScrollIteration)

\* the history API on its own: calls of appendMessage on any document
InitHistory == StoreIdle /\ LoginIdle /\ FetchIdle /\ HistInit /\ ChatIdle /\ MoreIdle

SpecHistory == InitHistory /\ [][HistNext]_vars

\* the history API on its own: calls of appendMessage and saveChatHistory
InitStoreCalls ==
    StoreIdle /\ LoginIdle /\ FetchIdle /\ HistInit /\ ChatIdle /\ MoreIdle

SpecStoreCalls == InitStoreCalls /\ [][StoreCallsNext]_vars

\* the bot after login: chat operations in any order, one listener at a time
InitChat == StoreIdle /\ LoginIdle /\ FetchIdle /\ HistIdle /\ ChatIdle /\ MoreIdle

SpecChat == InitChat /\ [][ChatNext]_vars

\* one attempt of performLogin on a page drawn at the start
AttemptInit ==
    /\ credsSet \in BOOLEAN
    /\ loginPc = "perform"
    /\ loaded = Null
    /\ contextCookies = <<>>
    /\ validation = "none"
    /\ attempt = 0
    /\ lastAttempt = NoAttempt
    /\ waited = 0
    /\ loginResult = "none"
    /\ loginError = NoError
    /\ holdSeen = FALSE
    /\ attemptAfterHold = FALSE
    /\ logins = 1
    /\ attemptPage \in AttemptPages

\* performLogin, lines 12-43, on attemptPage
OneAttempt ==
    /\ loginPc = "perform"
    /\ attempt = 0
    /\ attempt' = 1
    /\ lastAttempt' = loginAttempt(attemptPage, credsSet)
    /\ holdSeen' = attemptPage.hold
    /\ loginPc' = "attempted"
    /\ UNCHANGED <<credsSet, loaded, contextCookies, validation, waited, loginResult,
                   loginError, attemptAfterHold, logins, moreVars, storeVars,
                   fetchVars, histVars, chatVars>>

InitAttempt ==
    StoreIdle /\ AttemptInit /\ FetchIdle /\ HistIdle /\ ChatIdle /\ RestIdle

AttemptNext == OneAttempt

SpecAttempt == InitAttempt /\ [][AttemptNext]_vars

\* state after construction, before the first login(): no fetch in progress
InitLogin == StoreInit /\ LoginInit /\ FetchIdle /\ HistIdle /\ ChatIdle /\ MoreIdle

SpecLogin == InitLogin /\ [][LoginNext]_vars

(***************************************************************************)
(* Properties of the login flow (checked under SpecLogin)                  *)
(***************************************************************************)

\* C1: performLogin makes at most 3 attempts; it returns right after the
\* first attempt that succeeds, and when the 3rd attempt fails too it throws
\* an error carrying the message of that 3rd attempt; no 4th attempt starts.
C1_AtMostThreeAttempts ==
    /\ [](/\ attempt <= 3
          /\ (loginPc \in {"save", "done"} /\ attempt = 3 /\ ~lastAttempt.ok)
               => /\ loginPc = "done"
                  /\ loginResult = "failed"
                  /\ loginError = [kind |-> "LoginFailed", cause |-> lastAttempt.msg]
          /\ (loginError.kind = "LoginFailed" => attempt = 3 /\ ~lastAttempt.ok)
          /\ (loginPc = "save" => lastAttempt.ok))
    /\ [][(loginPc = "attempted" /\ lastAttempt.ok)
            => (loginPc' = "save" /\ attempt' = attempt)]_vars

C1_Witness ==
    /\ loginPc = "done"
    /\ loginResult = "failed"
    /\ attempt = 3
    /\ loginError = [kind |-> "LoginFailed", cause |-> MsgNoSubmit]

\* C2: once the account-on-hold markup has been shown (while validating a
\* reused session, or on a login attempt), no further login attempt is
\* started and login() ends with an account-on-hold error of its own kind.
C2_HoldShortCircuits ==
    holdSeen =>
        /\ ~attemptAfterHold
        /\ (loginPc = "done" =>
              loginResult = "failed" /\ loginError.kind = "AccountOnHold")

\* the state right after login() called loadCookies: the file and the clock
\* are those the call read
JustLoaded == loginPc \in {"validate", "perform"} /\ attempt = 0

\* C3: for a well-formed cookie document, loadCookies returns null when the
\* capture timestamp is more than 7 days old and the stored cookies when it
\* is less than 7 days old, whatever the cookies are.
C3_StalenessRule ==
    (JustLoaded /\ cookieFile.kind = "doc" /\ cookieFile.tsKind = "date") =>
        /\ (now - cookieFile.timestamp > 7 * 24 * 60 * 60 * 1000
              => loaded = [isNull |-> TRUE, cookies |-> <<>>])
        /\ (now - cookieFile.timestamp < 7 * 24 * 60 * 60 * 1000
              => loaded = [isNull |-> FALSE, cookies |-> cookieFile.cookies])

C3_Witness ==
    /\ JustLoaded
    /\ cookieFile.kind = "doc"
    /\ cookieFile.tsKind = "date"
    /\ cookieFile.cookies # <<>>
    /\ now - cookieFile.timestamp = 8 * 24 * 60 * 60 * 1000
    /\ loaded.isNull

\* C4: when the reused session is confirmed, login() returns success and the
\* credential flow is never entered: no login attempt, no navigation to the
\* login page, no typing, no submission.
C4_SessionReuseSkipsCredentials ==
    validation = "confirmed" =>
        /\ loginPc = "done"
        /\ loginResult = "ok"
        /\ attempt = 0
        /\ ~lastAttempt.navigated
        /\ ~lastAttempt.typedEmail
        /\ ~lastAttempt.typedPass
        /\ ~lastAttempt.submitted

C4_Witness ==
    /\ validation = "confirmed"
    /\ loginPc = "done"
    /\ loginResult = "ok"
    /\ ~loaded.isNull
    /\ contextCookies = loaded.cookies

\* C5: when the login() call in which a stored session failed validation has
\* ended, loadCookies no longer returns the cookies of that session.
C5_RejectedSessionDiscarded ==
    (loginPc = "done" /\ validation = "rejected") =>
        loadCookies(cookieFile, now) # loaded

(***************************************************************************)
(* Properties of the extractor (checked under SpecFetch)                   *)
(***************************************************************************)

\* C6: the returned sequence holds no two messages with the same text and
\* timestamps less than 1000 ms apart.
C6_NoNearDuplicates ==
    fetchPc = "done" =>
        \A i, j \in 1..Len(result) :
            i # j => ~(/\ result[i].text = result[j].text
                       /\ result[i].timestamp - result[j].timestamp < 1000
                       /\ result[j].timestamp - result[i].timestamp < 1000)

C6_Witness ==
    /\ fetchPc = "done"
    /\ Len(result) >= 2
    /\ Len(result) < Len(messages)

\* C7: the returned sequence is in ascending order of timestamp, also when
\* the duplicate filter removed entries.
C7_SortedAscending ==
    fetchPc = "done" =>
        \A i, j \in 1..Len(result) :
            i < j => result[i].timestamp <= result[j].timestamp

C7_Witness ==
    /\ fetchPc = "done"
    /\ Len(result) >= 2
    /\ Len(result) < Len(messages)
    /\ \E i, j \in 1..Len(messages) :
         i < j /\ messages[i].timestamp > messages[j].timestamp

\* C8: every returned message comes from the elements of one selector, the
\* first in list order whose query returned an element, also when the query
\* of an earlier selector threw.
C8_SingleWinningSelector ==
    fetchPc = "done" =>
        /\ \A i \in 1..Len(result) : result[i].sel = winner
        /\ \A i \in 1..Len(messages) : messages[i].sel = winner

C8_Witness ==
    /\ fetchPc = "done"
    /\ winner = 3
    /\ queryThrew
    /\ Len(result) >= 2

\* C9: fetchChatHistory does not return when no message selector matched an
\* element: it fails with an error instead of returning an empty sequence.
C9_NoMatchIsAnError ==
    fetchPc = "done" => winner # 0

\* the count grew with each of the first 3 scrolls and has stayed the same
\* since
StopsIncreasingAfter3Scrolls == growthRun = 3 /\ phase = "flat"

C12_TerminatesWithinTenScrolls ==
    /\ [](scrollAttempt <= maxScrollAttempts)
    /\ <>(fetchPc = "scrolled")

C12_Witness ==
    /\ fetchPc = "scrolled"
    /\ scrollAttempt = maxScrollAttempts
    /\ pageCount # previousMessageCount

(***************************************************************************)
(* Properties of the history store (checked under SpecHistory)             *)
(***************************************************************************)

\* the entries of conversation c that equal message
EntriesEqual(c, message) ==
    {k \in 1..Len(loadChatHistory(historyFile)[c]) :
        loadChatHistory(historyFile)[c][k] = message}

\* C13: after appendMessage(c, m) was called twice in a row with the same m,
\* the second call left the document unchanged and c holds m once: exactly
\* one entry equal to m when the first call stored it, and otherwise the
\* earlier entry that made the first call a duplicate and no entry equal to m
\* beside it.
C13_AppendIdempotent ==
    (lastCall.op = "append" /\ lastCall.repeat) =>
        /\ ~lastCall.changed
        /\ Cardinality(EntriesEqual(lastCall.conv, lastCall.message)) <= 1
        /\ lastCall.prevChanged =>
              Cardinality(EntriesEqual(lastCall.conv, lastCall.message)) = 1
        /\ \E k \in 1..Len(loadChatHistory(historyFile)[lastCall.conv]) :
              isExisting(loadChatHistory(historyFile)[lastCall.conv][k],
                         lastCall.message)

C13_Witness ==
    /\ lastCall.op = "append"
    /\ lastCall.repeat
    /\ lastCall.prevChanged
    /\ Len(loadChatHistory(historyFile)[lastCall.conv]) = 1

\* C14: appendMessage rejects a message exactly when an existing entry of the
\* conversation has the same text and a timestamp less than 1000 ms away (the
\* rule of extraction); otherwise it appends it.
C14_SameRuleAsExtraction ==
    lastCall.op = "append" => (lastCall.changed <=> ~lastCall.dupByExtraction)

(***************************************************************************)
(* Properties of the chat operations (checked under SpecChat)              *)
(***************************************************************************)

\* C15: the history of a conversation is append-only: every entry stored for
\* a conversation before an operation is stored, unmodified, after it.
C15_HistoryAppendOnly ==
    [][\A c \in Convs :
         \A k \in 1..Len(loadChatHistory(historyFile)[c]) :
            \E j \in 1..Len(loadChatHistory(historyFile')[c]) :
               loadChatHistory(historyFile')[c][j] =
                   loadChatHistory(historyFile)[c][k]]_vars

\* C16: while the flag stays true the watch keeps running: startLiveListener
\* has neither returned nor thrown unless the flag was false when it exited.
C16_WatchSurvivesCycles ==
    listenPc \in {"returned", "thrown"} => cancelledAtExit

\* C17: when the flag has been set to false, startLiveListener ends by
\* returning, with the observer disconnected.
C17_CancelledWatchReturns ==
    (listenPc \in {"returned", "thrown"} /\ cancelledAtExit) =>
        (listenPc = "returned" /\ ~observer)

\* C18: an element a polling cycle has processed no longer carries the flag
\* when the cycle is over, and no element is processed by a second cycle.
C18_FlagClearedAfterCycle ==
    \A k \in 1..Len(pageElems) :
        pageElems[k].cycles >= 1 =>
            (~pageElems[k].flag /\ pageElems[k].cycles = 1)

\* C19: no message classified as outgoing (type 'sent') is appended to the
\* history by the live watch.
C19_WatchNeverPersistsOwn ==
    \A m \in liveAppended : m.type # "sent"

\* C20: after a sendMessage call that returned, the returned message is an
\* entry of that conversation's persisted history.
C20_SentMessagePersisted ==
    (lastOp = "send" /\ lastSend.ok) =>
        \E k \in 1..Len(loadChatHistory(historyFile)[lastSend.conv]) :
            loadChatHistory(historyFile)[lastSend.conv][k] = lastSend.message

(***************************************************************************)
(* Properties of one login attempt and of the retry loop                   *)
(***************************************************************************)

\* C22: an attempt that failed because the login form's inputs did not appear
\* within the bounded wait is not followed by another attempt: the retry
\* loop does not go round again after it.
C22_MissingFormNotRetried ==
    [][(loginPc = "attempted" /\ ~lastAttempt.ok
          /\ lastAttempt.msg = MsgFormTimeout) => loginPc' # "perform"]_vars

\* C23: an attempt submits the form only if both the email input and the
\* password input were located and filled.
C23_SubmitOnlyAfterBothFilled ==
    lastAttempt.submitted => (lastAttempt.typedEmail /\ lastAttempt.typedPass)

\* the attempt on attemptPage got as far as the login-result wait
ReachedResultWait ==
    /\ loginPc = "attempted"
    /\ attemptPage.gotoOk /\ ~attemptPage.already /\ attemptPage.formWait
    /\ credsSet /\ attemptPage.submitEl

SuccessSignals == {"urlDashboard", "urlProfile", "markup"}

\* C24 as stated: the attempt is a success as soon as one of the three
\* success signals resolves first, and a failure if the error element does.
C24_FirstSignalDecides ==
    ReachedResultWait =>
        /\ attemptPage.race \in SuccessSignals => lastAttempt.ok
        /\ attemptPage.race = "errorEl" => ~lastAttempt.ok

\* C24 amended: when a success signal resolves first the attempt is a success
\* exactly if the page URL read after the 2 s settle contains 'dashboard' or
\* 'student', and a failure otherwise; when the error element resolves first
\* the attempt is a failure.
C24_FirstSignalThenUrlCheck ==
    ReachedResultWait =>
        /\ attemptPage.race \in SuccessSignals =>
              (lastAttempt.ok <=> attemptPage.url # "other")
        /\ attemptPage.race = "errorEl" =>
              (~lastAttempt.ok /\ lastAttempt.msg = MsgErrorDetected)

C24_Witness ==
    /\ ReachedResultWait
    /\ attemptPage.race = "markup"
    /\ attemptPage.url = "other"
    /\ ~lastAttempt.ok

\* C25: whatever handleCaptcha met, the attempt goes on to the submit step,
\* and once the form is submitted its outcome is that of the login-result
\* wait alone.
C25_CaptchaNeverFatal ==
    (/\ loginPc = "attempted"
     /\ attemptPage.gotoOk /\ ~attemptPage.already /\ attemptPage.formWait
     /\ credsSet) =>
        /\ lastAttempt.submitted <=> attemptPage.submitEl
        /\ lastAttempt.msg # MsgCaptcha
        /\ attemptPage.submitEl =>
              /\ lastAttempt.msg = waitForLoginResult(attemptPage)
              /\ lastAttempt.ok <=> (waitForLoginResult(attemptPage) = "")

C25_Witness ==
    /\ loginPc = "attempted"
    /\ credsSet
    /\ attemptPage.captcha = "throws"
    /\ lastAttempt.submitted
    /\ lastAttempt.ok

\* C26: when 2 attempts fail and the 3rd succeeds, performLogin succeeds
\* having waited at least base + 2 x base (base = 2000 ms); the wait after
\* failed attempt k is at least base x 2^(k-1); no wait follows the final
\* attempt.
C26_BackoffLowerBound ==
    /\ []((loginPc \in {"attempted", "save", "done"} /\ attempt = 3
             /\ lastAttempt.ok) =>
            (waited >= retryDelay + 2 * retryDelay /\ loginResult # "failed"))
    /\ [][(loginPc = "attempted" /\ loginPc' = "perform") =>
            waited' >= waited + retryDelay * Pow2(attempt - 1)]_vars
    /\ [][(loginPc = "attempted" /\ loginPc' # "perform") => waited' = waited]_vars

C26_Witness ==
    /\ loginPc = "done"
    /\ loginResult = "ok"
    /\ attempt = 3
    /\ lastAttempt.ok
    /\ waited = 6000

\* C27: a sendMessage call in which no compose-input selector matches ends
\* in an error with nothing typed or sent, leaves the persisted history as it
\* was and returns no message.
C27_NoInputNoSend ==
    [][(calls' = calls + 1 /\ lastOp' = "send" /\ ~lastSend'.inputFound) =>
         /\ ~lastSend'.typed
         /\ lastSend'.error # ""
         /\ ~lastSend'.ok
         /\ lastSend'.message = NoMessage
         /\ historyFile' = historyFile]_vars

C27_Witness ==
    /\ lastOp = "send"
    /\ pageOpen
    /\ lastSend.error = MsgNoInput
    /\ ~lastSend.typed
    /\ historyFile # NoHistoryFile

\* C28: a read of the cookie file or of the chat-history file that finds it
\* missing or not parseable raises nothing: loadCookies returns null and
\* loadChatHistory the empty history.
C28_ReadsNeverRaise ==
    /\ ~storeRead.raised
    /\ (storeRead.op = "loadCookies" /\ storeRead.fileKind \in {"absent", "corrupt"})
         => storeRead.cookies = Null
    /\ (storeRead.op = "loadChatHistory"
          /\ storeRead.fileKind \in {"absent", "corrupt"})
         => (storeRead.data = EmptyData /\ storeRead.entry = <<>>)

C28_Witness ==
    /\ storeRead.op = "loadChatHistory"
    /\ storeRead.fileKind = "corrupt"
    /\ storeRead.logged
    /\ cookieFile.kind = "corrupt"

\* C29: pollForResult returns within its 2-minute ceiling after a bounded
\* number of polls, and never throws: the solution when the task is ready,
\* null on an API error, an unexpected status or the ceiling.
C29_ReturnsWithinCeiling ==
    /\ polls <= maxWaitTime \div pollInterval
    /\ pollResult \in {"none", "solution", "null"}
    /\ pollPc = "returned" =>
         (pollResult # "none" /\ pollElapsed <= maxWaitTime)

\* C30: for a page whose winning candidate matches n elements with text
\* and no timestamp, k of them with an outgoing marker, extractMessages
\* returns n messages, k of type sent and n - k of type received, in
\* ascending order of timestamp.
C30_AllTimelessElementsReturned ==
    fetchPc = "extracted" =>
        /\ Len(result) = Len(pageEls)
        /\ Cardinality({i \in 1..Len(result) : result[i].type = "sent"}) =
             Cardinality({i \in 1..Len(pageEls) : pageEls[i].own})
        /\ Cardinality({i \in 1..Len(result) : result[i].type = "received"}) =
             Cardinality({i \in 1..Len(pageEls) : ~pageEls[i].own})
        /\ \A i \in 1..Len(result) - 1 :
             result[i].timestamp <= result[i + 1].timestamp

\* C21: every tool call resolves to an object with a boolean success field
\* and never throws; a failure of the bot operation behind it, that of a
\* listener started by listen_live included, is reported as success = false
\* and no rejection goes unhandled.
C21_FailuresAlwaysReported ==
    /\ ~toolResult.threw
    /\ toolResult.success \in BOOLEAN
    /\ toolResult.botFailed => ~toolResult.success
    /\ listenPromise = "rejected" => ~listenReport
    /\ ~unhandled

\* C31: in the duplicate filter of extractMessages a message is dropped only
\* if a message that is retained has the same text and a timestamp less than
\* 1000 ms away; the last message of a chain whose neighbours were dropped
\* is kept.
C31_DroppedOnlyForRetainedDuplicate ==
    fetchPc = "done" =>
        \A k \in 1..Len(messages) :
            (\A j \in 1..Len(result) : result[j] # messages[k]) =>
                \E j \in 1..Len(result) : isDuplicate(result[j], messages[k])

\* C32: in a message made by extractMessageData, sender and type both
\* follow isOwnMessage alone: type sent with sender me when it is true, type
\* received with another sender when it is false.
C32_SenderAndTypeFollowOwn ==
    (classified.by = "extractMessageData" /\ ~classified.message.isNull) =>
        /\ elem.own => (classified.message.type = "sent"
                          /\ classified.message.sender = "me")
        /\ ~elem.own => (classified.message.type = "received"
                           /\ classified.message.sender # "me")
        /\ (classified.message.type = "sent") <=> (classified.message.sender = "me")

\* C33: an element without an outgoing marker whose text contains the
\* self-authorship marker is classified as the user's own message.
C33_SelfMarkerMeansOwn ==
    (classified.by # "none" /\ ~elem.own /\ elem.text = MarkedText
       /\ ~classified.message.isNull) =>
        classified.message.type = "sent"

\* C34: an element whose time text is relative gets the timestamp now minus
\* N of the unit, whatever its index.
C34_RelativeTimeResolved ==
    (classified.by = "extractMessageData" /\ elem.text # ""
       /\ elem.time.kind = "relative") =>
        (~classified.message.isNull
           /\ classified.message.timestamp = now - elem.time.value)

\* C35: when two read-modify-write calls on the history store overlap, the
\* store holds the effects of both once both are done: it is what one of the
\* two orders of running them one after the other leaves.
C35_NoLostUpdate ==
    (\A w \in Writers : rmwPc[w] = "done") =>
        \/ historyFile = applyOp(rmwOps[2], applyOp(rmwOps[1], rmwBase))
        \/ historyFile = applyOp(rmwOps[1], applyOp(rmwOps[2], rmwBase))

\* C40: after any sequence of saveChatHistory and appendMessage calls every
\* entry of the store has messageCount equal to the number of its messages,
\* and each call leaves the entries of the other conversations as they were.
C40_CountsMatchAndOthersKept ==
    /\ [](\A c \in Convs :
            loadCounts(historyFile)[c] = Len(loadChatHistory(historyFile)[c]))
    /\ [][\A c \in Convs :
            c # lastCall'.conv =>
                /\ loadChatHistory(historyFile')[c] = loadChatHistory(historyFile)[c]
                /\ loadCounts(historyFile')[c] = loadCounts(historyFile)[c]]_vars

C40_Witness ==
    /\ lastCall.op = "append"
    /\ ~lastCall.changed
    /\ Len(loadChatHistory(historyFile)["c1"]) = 2
    /\ Len(loadChatHistory(historyFile)["c2"]) = 1
    /\ loadCounts(historyFile) = [c \in Convs |-> IF c = "c1" THEN 2 ELSE 1]

\* C39: loadCookies returns cookies only from a document whose capture
\* timestamp is present, parses as a date and is at most 7 days old; with a
\* missing or unparseable timestamp it returns null.
C39_CookiesOnlyWithValidTimestamp ==
    (storeRead.op = "loadCookies" /\ ~storeRead.cookies.isNull) =>
        (cookieFile.kind = "doc" /\ cookieFile.tsKind = "date")

\* C36: isListening is true only while a live-watch loop is running: once
\* the loop has ended, by cancellation or by an error, the flag is false.
C36_FlagFalseAfterLoopEnds ==
    listenPc \in {"returned", "thrown", "failed"} => ~isListening

\* C37: for every interleaving of startListening, stopListening and cleanup
\* at most one live-watch loop is polling at any time.
C37_AtMostOneLoop == Cardinality(polling) <= 1

\* C38: a duration timer stops only the listening session of its own
\* listen_live call, never a session started by a later call.
C38_TimerStopsOwnSession ==
    (lastStop.by = "timer" /\ lastStop.session # 0) =>
        lastStop.owner = lastStop.session

====
